---------------------------- MODULE Spec2Model ----------------------------
(***************************************************************************)
(* LandSync: the matching engine (backend/app/matching/engine.py) and the  *)
(* reconciliation / verification endpoints (backend/app/api/reconcile.py). *)
(*                                                                         *)
(* Strings are sequences of one-character strings.  Scores are fixed-point *)
(* integers: one unit is 1/Scale of a score point, so 100.0 is 100*Scale.  *)
(* The object-relational mapper is modelled as a store that keeps the      *)
(* attribute values the handlers assign and, on commit, writes the         *)
(* attributes whose value differs from the loaded one.  The keyword        *)
(* arguments of Match(...) and AuditLog(...) are taken as the attributes   *)
(* they name (algorithm_details, changes), and a loaded status as a member *)
(* of MatchStatus, as the handlers take them.                              *)
(***************************************************************************)
EXTENDS Integers, Sequences, FiniteSets, TLC

VARIABLES
    parcels,        \* table parcels: the rows run_reconciliation selects
    text_records,   \* table text_records
    matches,        \* table matches, in insertion order; a row's id is its index
    audit_logs,     \* table audit_logs, in insertion order
    sessions,       \* the verify_match requests in flight, one database session each
    verify_result,  \* the verify_match request that finished last, and its response
    verify_calls,   \* verify_match requests started so far
    ok_calls,       \* per match id: verify_match requests that returned success
    runs,           \* run_reconciliation requests served so far
    last_response,  \* the ReconcileResponse of the latest run_reconciliation
    engine_call,    \* one direct call of MatchingEngine.run_matching
    score_call,     \* one direct call of MatchingEngine._calculate_match
    classify_call,  \* one pass of the status/confidence decision on a score
    normalize_call, \* one direct call of each normalizer, and one on its result
    area_call       \* two direct calls of MatchingEngine._calculate_area_score

vars == << parcels, text_records, matches, audit_logs, sessions, verify_result,
           verify_calls, ok_calls, runs, last_response, engine_call, score_call,
           classify_call, normalize_call, area_call >>

-----------------------------------------------------------------------------
(* Fixed-point arithmetic *)

\* score units per score point (the resolution of the float arithmetic)
Scale == 100 * 100

\* 100.0 in score units
Hundred == 100 * Scale

Abs(x) == IF x < 0 THEN 0 - x ELSE x

Max2(a, b) == IF a >= b THEN a ELSE b

\* the element of a one-element set: Value({e(x) : x \in {d}}) is e with x
\* standing for the value of d, which is computed once
Value(S) == CHOOSE v \in S : TRUE

\* a / b rounded to the nearest integer (halves away from zero), b # 0
RDiv(a, b) ==
    LET n == Abs(a)
        d == Abs(b)
        q == (2 * n + d) \div (2 * d)
    IN  IF (a < 0) = (b < 0) THEN q ELSE 0 - q

\* round(x, 2): score units to hundredths of a point
Round2(x) == RDiv(x, Scale \div 100)

-----------------------------------------------------------------------------
(* Characters and strings *)

UpperChars == << "A","B","C","D","E","F","G","H","I","J","K","L","M",
                 "N","O","P","Q","R","S","T","U","V","W","X","Y","Z" >>

LowerChars == << "a","b","c","d","e","f","g","h","i","j","k","l","m",
                 "n","o","p","q","r","s","t","u","v","w","x","y","z" >>

DigitChars == {"0","1","2","3","4","5","6","7","8","9"}

\* code points of the Devanagari block, written by their names
DevanagariChars == {"U+0936", "U+094D", "U+0930", "U+0940", "U+092E", "U+0924"}

Range(s) == {s[i] : i \in 1..Len(s)}

\* str.lower() on one character
ToLower(c) ==
    IF \E i \in 1..26 : UpperChars[i] = c
    THEN LowerChars[CHOOSE i \in 1..26 : UpperChars[i] = c]
    ELSE c

StrLower(s) == [i \in 1..Len(s) |-> ToLower(s[i])]

IsSpace(c) == c \in {" ", "\t"}

\* \w of a str pattern: letters, digits, underscore
IsWordChar(c) ==
    \/ c \in Range(LowerChars) \cup Range(UpperChars) \cup DigitChars \cup {"_"}
    \/ c \in {"U+0936", "U+0930", "U+092E", "U+0924"}

RECURSIVE LStrip(_)
LStrip(s) == IF s # << >> /\ IsSpace(Head(s)) THEN LStrip(Tail(s)) ELSE s

RECURSIVE RStrip(_)
RStrip(s) ==
    IF s # << >> /\ IsSpace(s[Len(s)]) THEN RStrip(SubSeq(s, 1, Len(s) - 1)) ELSE s

\* str.strip()
Strip(s) == RStrip(LStrip(s))

\* str.startswith(p)
StartsWith(s, p) == Len(s) >= Len(p) /\ SubSeq(s, 1, Len(p)) = p

\* s[n:]
DropFirst(s, n) == SubSeq(s, n + 1, Len(s))

\* str.split(): the maximal runs of non-whitespace characters, in order
RECURSIVE SplitFrom(_, _, _)
SplitFrom(s, cur, acc) ==
    IF s = << >>
    THEN IF cur = << >> THEN acc ELSE Append(acc, cur)
    ELSE IF IsSpace(Head(s))
         THEN SplitFrom(Tail(s), << >>, IF cur = << >> THEN acc ELSE Append(acc, cur))
         ELSE SplitFrom(Tail(s), Append(cur, Head(s)), acc)

Split(s) == SplitFrom(s, << >>, << >>)

\* sep.join(tokens)
RECURSIVE Join(_, _)
Join(tokens, sep) ==
    IF tokens = << >> THEN << >>
    ELSE IF Len(tokens) = 1 THEN tokens[1]
    ELSE tokens[1] \o sep \o Join(Tail(tokens), sep)

\* str.isdigit()
IsDigitStr(s) == s # << >> /\ \A i \in 1..Len(s) : s[i] \in DigitChars

\* str(int(part)) for an all-digit part
RECURSIVE StrOfInt(_)
StrOfInt(part) ==
    IF Len(part) > 1 /\ Head(part) = "0" THEN StrOfInt(Tail(part)) ELSE part

\* re.sub(r'\s+', ' ', s)
RECURSIVE CollapseSpaces(_, _)
CollapseSpaces(s, inRun) ==
    IF s = << >> THEN << >>
    ELSE IF IsSpace(Head(s))
         THEN (IF inRun THEN << >> ELSE << " " >>) \o CollapseSpaces(Tail(s), TRUE)
         ELSE << Head(s) >> \o CollapseSpaces(Tail(s), FALSE)

\* lexicographic order of two strings by a fixed order of the characters
CharOrder == << " ", "-", ".", "/", "0","1","2","3","4","5","6","7","8","9", "_" >>
             \o UpperChars \o LowerChars
             \o << "U+0924", "U+092E", "U+0930", "U+0936", "U+0940", "U+094D" >>

CharRank(c) ==
    IF \E i \in 1..Len(CharOrder) : CharOrder[i] = c
    THEN CHOOSE i \in 1..Len(CharOrder) : CharOrder[i] = c
    ELSE 0

RECURSIVE StrLess(_, _)
StrLess(a, b) ==
    IF b = << >> THEN FALSE
    ELSE IF a = << >> THEN TRUE
    ELSE IF CharRank(Head(a)) # CharRank(Head(b))
         THEN CharRank(Head(a)) < CharRank(Head(b))
         ELSE StrLess(Tail(a), Tail(b))

\* sorted(set_of_strings)
RECURSIVE SortedStrs(_)
SortedStrs(S) ==
    IF S = {} THEN << >>
    ELSE LET m == CHOOSE x \in S : \A y \in S \ {x} : StrLess(x, y)
         IN  << m >> \o SortedStrs(S \ {m})

\* sorted(list_of_strings): duplicates kept
RECURSIVE InsertStr(_, _)
InsertStr(sorted, x) ==
    IF sorted = << >> THEN << x >>
    ELSE IF StrLess(x, Head(sorted)) THEN << x >> \o sorted
    ELSE << Head(sorted) >> \o InsertStr(Tail(sorted), x)

RECURSIVE SortedList(_)
SortedList(l) == IF l = << >> THEN << >> ELSE InsertStr(SortedList(Tail(l)), Head(l))

-----------------------------------------------------------------------------
(* MatchingEngine._normalize_name, MatchingEngine._normalize_id *)

prefixes ==
    << << "s","h","r","i" >>, << "s","m","t" >>, << "m","r" >>, << "m","r","s" >>,
       << "m","s" >>, << "d","r" >>, << "p","r","o","f" >>, << "s","h" >>,
       << "U+0936","U+094D","U+0930","U+0940" >>,
       << "U+0936","U+094D","U+0930","U+0940","U+092E","U+0924","U+0940" >> >>

\* the loop over prefixes: each prefix in turn is cut off the current name
RECURSIVE StripPrefixes(_, _)
StripPrefixes(name, i) ==
    IF i > Len(prefixes) THEN name
    ELSE IF StartsWith(name, prefixes[i] \o << " " >>)
         THEN StripPrefixes(DropFirst(name, Len(prefixes[i]) + 1), i + 1)
         ELSE StripPrefixes(name, i + 1)

_normalize_name(name) ==
    IF name = << >> THEN << >>
    ELSE LET n1 == Strip(StrLower(name))
             n2 == StripPrefixes(n1, 1)
             n3 == SelectSeq(n2, LAMBDA c :
                       IsWordChar(c) \/ IsSpace(c) \/ c \in DevanagariChars)
         IN  Strip(CollapseSpaces(n3, FALSE))

NormalizePart(part) == IF IsDigitStr(part) THEN StrOfInt(part) ELSE part

_normalize_id(plot_id) ==
    IF plot_id = << >> THEN << >>
    ELSE LET p1 == Strip(StrLower(plot_id))
             p2 == SelectSeq(p1, LAMBDA c : c \notin {"-", "/", "\\", "."})
             parts == Split(p2)
         IN  Join([i \in 1..Len(parts) |-> NormalizePart(parts[i])], << >>)

-----------------------------------------------------------------------------
(* rapidfuzz, as engine.py calls it.  All results are in score units. *)

\* one row of the longest-common-subsequence table; prev and cur hold the
\* columns 0..Len(b) at the indices 1..Len(b)+1
RECURSIVE LcsRow(_, _, _, _, _)
LcsRow(ch, b, prev, j, cur) ==
    IF j > Len(b) THEN cur
    ELSE Value({LcsRow(ch, b, prev, j + 1, Append(cur, v)) :
                v \in {IF ch = b[j] THEN prev[j] + 1 ELSE Max2(prev[j + 1], cur[j])}})

RECURSIVE LcsRows(_, _, _, _)
LcsRows(a, b, i, prev) ==
    IF i > Len(a) THEN prev[Len(b) + 1]
    ELSE Value({LcsRows(a, b, i + 1, row) : row \in {LcsRow(a[i], b, prev, 1, << 0 >>)}})

LcsLen(a, b) ==
    Value({LcsRows(s1, s2, 1, [j \in 1..(Len(s2) + 1) |-> 0]) : s1 \in {a}, s2 \in {b}})

\* Indel distance: insertions and deletions turning a into b
IndelDistance(a, b) == Len(a) + Len(b) - 2 * LcsLen(a, b)

\* 100 * (1 - dist / lensum); 100 when both strings are empty
NormDistance(dist, lensum) ==
    IF lensum = 0 THEN Hundred ELSE Hundred - RDiv(dist * Hundred, lensum)

\* fuzz.ratio
FuzzRatio(a, b) == NormDistance(IndelDistance(a, b), Len(a) + Len(b))

\* the windows of the longer string that partial_ratio aligns the shorter with:
\* its proper prefixes shorter than the needle, every substring of the needle's
\* length, and its suffixes shorter than the needle
PartialWindows(short, long) ==
    LET m == Len(short)
        n == Len(long)
    IN  {SubSeq(long, 1, i) : i \in 1..(m - 1)}
        \cup {SubSeq(long, i, i + m - 1) : i \in 1..(n - m + 1)}
        \cup {SubSeq(long, i, n) : i \in (n - m + 2)..n}

PartialRatioImpl(short, long) ==
    LET scores == {FuzzRatio(short, w) : w \in PartialWindows(short, long)}
    IN  IF scores = {} THEN 0 ELSE CHOOSE x \in scores : \A y \in scores : y <= x

\* fuzz.partial_ratio
FuzzPartialRatio(a, b) ==
    IF a = << >> /\ b = << >> THEN Hundred
    ELSE IF Len(a) < Len(b) THEN PartialRatioImpl(a, b)
    ELSE IF Len(b) < Len(a) THEN PartialRatioImpl(b, a)
    ELSE Max2(PartialRatioImpl(a, b), PartialRatioImpl(b, a))

\* fuzz.token_sort_ratio
FuzzTokenSortRatio(a, b) ==
    FuzzRatio(Join(SortedList(Split(a)), << " " >>),
              Join(SortedList(Split(b)), << " " >>))

\* fuzz.token_set_ratio
TokenSetRatio(tokens_a, tokens_b, diff_ab, diff_ba, sect_len) ==
    LET intersect == tokens_a \cap tokens_b
        ab_len == Len(diff_ab)
        ba_len == Len(diff_ba)
        sep == IF sect_len # 0 THEN 1 ELSE 0
        sect_ab_len == sect_len + sep + ab_len
        sect_ba_len == sect_len + sep + ba_len
        sect_ab_ratio == NormDistance(sep + ab_len, sect_len + sect_ab_len)
        sect_ba_ratio == NormDistance(sep + ba_len, sect_len + sect_ba_len)
    IN  IF tokens_a = {} \/ tokens_b = {} THEN 0
        ELSE IF intersect # {} /\ (tokens_a \subseteq tokens_b \/ tokens_b \subseteq tokens_a)
        THEN Hundred
        ELSE Value({IF sect_len = 0 THEN result
                    ELSE Max2(result, Max2(sect_ab_ratio, sect_ba_ratio)) :
                    result \in {NormDistance(IndelDistance(diff_ab, diff_ba),
                                             sect_ab_len + sect_ba_len)}})

FuzzTokenSetRatio(a, b) ==
    Value({Value({TokenSetRatio(tokens_a, tokens_b, diff_ab, diff_ba, sect_len) :
                  diff_ab \in {Join(SortedStrs(tokens_a \ tokens_b), << " " >>)},
                  diff_ba \in {Join(SortedStrs(tokens_b \ tokens_a), << " " >>)},
                  sect_len \in {Len(Join(SortedStrs(tokens_a \cap tokens_b), << " " >>))}}) :
           tokens_a \in {Range(Split(a))}, tokens_b \in {Range(Split(b))}})

\* the characters of a within the match window of b, flagged greedily left to
\* right: JaroFlags returns the set of matched positions of b and the sequence
\* of matched characters of a, in a's order
RECURSIVE JaroScan(_, _, _, _, _, _)
JaroScan(a, b, w, i, usedB, matchedA) ==
    IF i > Len(a) THEN [usedB |-> usedB, matchedA |-> matchedA]
    ELSE Value({
        IF cand = {} THEN JaroScan(a, b, w, i + 1, usedB, matchedA)
        ELSE Value({JaroScan(a, b, w, i + 1, used, matched) :
                    used \in {usedB \cup {CHOOSE x \in cand : \A y \in cand : x <= y}},
                    matched \in {Append(matchedA, a[i])}}) :
        cand \in {{j \in 1..Len(b) :
                     /\ j >= i - w /\ j <= i + w
                     /\ j \notin usedB /\ b[j] = a[i]}}})

\* Jaro similarity in score units per 1.0 (Hundred means 1.0)
JaroSimilarity(a, b) ==
    IF a = << >> /\ b = << >> THEN Hundred
    ELSE IF a = << >> \/ b = << >> THEN 0
    ELSE Value({
        LET m == Len(scan.matchedA)
            matchedB == SelectSeq([j \in 1..Len(b) |->
                                      IF j \in scan.usedB THEN b[j] ELSE "" ],
                                  LAMBDA c : c # "")
        IN  Value({
                IF m = 0 THEN 0
                ELSE RDiv(RDiv(m * Hundred, Len(a)) + RDiv(m * Hundred, Len(b))
                          + RDiv((m - halfT) * Hundred, m), 3) :
                halfT \in {Cardinality({k \in 1..m : scan.matchedA[k] # matchedB[k]})
                              \div 2}}) :
        scan \in {Value({JaroScan(a, b, IF longer \div 2 >= 1 THEN longer \div 2 - 1 ELSE 0,
                                  1, {}, << >>) :
                         longer \in {Max2(Len(a), Len(b))}})}})

RECURSIVE CommonPrefixLen(_, _, _)
CommonPrefixLen(a, b, max) ==
    IF max = 0 \/ a = << >> \/ b = << >> \/ Head(a) # Head(b) THEN 0
    ELSE 1 + CommonPrefixLen(Tail(a), Tail(b), max - 1)

\* JaroWinkler.normalized_similarity(s1, s2) * 100, prefix weight 0.1
JaroWinklerSimilarity(a, b) ==
    Value({
        IF 10 * sim > 7 * Hundred
        THEN Value({IF boosted > Hundred THEN Hundred
                    ELSE IF boosted < 0 THEN 0 ELSE boosted :
                    boosted \in {sim + RDiv(CommonPrefixLen(a, b, 4) * (Hundred - sim), 10)}})
        ELSE sim :
        sim \in {JaroSimilarity(a, b)}})

-----------------------------------------------------------------------------
(* MatchingEngine: the scores *)

\* MatchingEngine.WEIGHTS, in percent
WeightName == 40

WeightArea == 30

WeightId == 30

\* run_matching widens the search when the best indexed score is below this
FullScanBelow == 80

Algorithms == {"levenshtein", "jaro_winkler", "cosine", "combined"}

\* n / m in score units per 1.0, m # 0
ScaledQuot(n, m) ==
    LET d == Abs(m)
        a == Abs(n)
        q == (a \div d) * Scale + RDiv((a % d) * Scale, d)
    IN  IF (n < 0) = (m < 0) THEN q ELSE 0 - q

\* a variant of the percent difference: relative to the smaller magnitude
DiffPercentOfSmaller(area1, area2) ==
    ScaledQuot(Abs(area1 - area2) * 100,
               IF Abs(area1) <= Abs(area2) THEN Abs(area1) ELSE Abs(area2))

\* abs(area1 - area2) / max(area1, area2) * 100
DiffPercent(area1, area2) == ScaledQuot(Abs(area1 - area2) * 100, Max2(area1, area2))

\* the division by self.area_tolerance in the first branch raises ZeroDivisionError
AreaScoreRaises(area1, area2, area_tolerance) ==
    /\ area1 # 0 /\ area2 # 0 /\ area1 # area2
    /\ area_tolerance = 0
    /\ DiffPercent(area1, area2) <= 0

\* a variant of the area score: the third segment starts at 60 instead of 50
AreaScoreRaisedSegment(area1, area2, area_tolerance) ==
    LET diff_percent == DiffPercent(area1, area2)
        t == area_tolerance
        tol == area_tolerance * Scale
        tail == 20 * Scale - RDiv(diff_percent - tol * 5, 10)
    IN  IF area1 = 0 \/ area2 = 0 THEN 0
        ELSE IF area1 = area2 THEN Hundred
        ELSE IF diff_percent <= tol
             THEN (IF t = 0 THEN 0 ELSE Hundred - RDiv(diff_percent * 20, t))
        ELSE IF diff_percent <= tol * 2
             THEN 80 * Scale - RDiv((diff_percent - tol) * 30, t)
        ELSE IF diff_percent <= tol * 5
             THEN 60 * Scale - RDiv((diff_percent - tol * 2) * 40, t * 3)
        ELSE IF tail > 0 THEN tail ELSE 0

_calculate_area_score(area1, area2, area_tolerance) ==
    LET diff_percent == DiffPercent(area1, area2)
        t == area_tolerance
        tol == area_tolerance * Scale
        tail == 20 * Scale - RDiv(diff_percent - tol * 5, 10)
    IN  IF area1 = 0 \/ area2 = 0 THEN 0
        ELSE IF area1 = area2 THEN Hundred
        ELSE IF diff_percent <= tol
             THEN (IF t = 0 THEN 0 ELSE Hundred - RDiv(diff_percent * 20, t))
        ELSE IF diff_percent <= tol * 2
             THEN 80 * Scale - RDiv((diff_percent - tol) * 30, t)
        ELSE IF diff_percent <= tol * 5
             THEN 50 * Scale - RDiv((diff_percent - tol * 2) * 30, t * 3)
        ELSE IF tail > 0 THEN tail ELSE 0

\* a variant of the name score: the equality test before the emptiness test
NameScoreEqualityFirst(name1, name2) ==
    IF name1 = name2 THEN Hundred
    ELSE IF name1 = << >> \/ name2 = << >> THEN 0
    ELSE RDiv(FuzzRatio(name1, name2) * 25 + FuzzPartialRatio(name1, name2) * 25
              + FuzzTokenSortRatio(name1, name2) * 25
              + FuzzTokenSetRatio(name1, name2) * 25, 100)

_calculate_name_score(name1, name2) ==
    IF name1 = << >> \/ name2 = << >> THEN 0
    ELSE IF name1 = name2 THEN Hundred
    ELSE RDiv(FuzzRatio(name1, name2) * 25 + FuzzPartialRatio(name1, name2) * 25
              + FuzzTokenSortRatio(name1, name2) * 25
              + FuzzTokenSetRatio(name1, name2) * 25, 100)

\* a variant of the id score: the equality test before the emptiness test
IdScoreEqualityFirst(id1, id2) ==
    IF id1 = id2 THEN Hundred
    ELSE IF id1 = << >> \/ id2 = << >> THEN 0
    ELSE FuzzRatio(id1, id2)

_calculate_id_score(id1, id2) ==
    IF id1 = << >> \/ id2 = << >> THEN 0
    ELSE IF id1 = id2 THEN Hundred
    ELSE FuzzRatio(id1, id2)

_jaro_winkler_score(s1, s2) ==
    IF s1 = << >> \/ s2 = << >> THEN 0 ELSE JaroWinklerSimilarity(s1, s2)

\* 100 / math.sqrt(n) in score units, n = 1..16
HundredOverSqrt ==
    << 1000000, 707107, 577350, 500000, 447214, 408248, 377964, 353553,
       333333, 316228, 301511, 288675, 277350, 267261, 258199, 250000 >>

_cosine_score(s1, s2) ==
    IF s1 = << >> \/ s2 = << >> THEN 0
    ELSE Value({
        LET intersection == tokens1 \cap tokens2
        IN  IF tokens1 = {} \/ tokens2 = {} THEN 0
            ELSE IF intersection = {} THEN 0
            ELSE Cardinality(intersection)
                 * HundredOverSqrt[Cardinality(tokens1) * Cardinality(tokens2)] :
        tokens1 \in {Range(Split(StrLower(s1)))},
        tokens2 \in {Range(Split(StrLower(s2)))}})

\* _calculate_match raises when the area score does
CalculateMatchRaises(parcel, record, area_tolerance) ==
    AreaScoreRaises(parcel.area, record.area, area_tolerance)

\* the dictionary _calculate_match returns, from the normalized names and ids
MatchResult(parcel_name, record_name, name_score, id_score, area_score, algorithm) ==
    [name_score |-> name_score, area_score |-> area_score, id_score |-> id_score,
     total_score |->
        IF algorithm = "levenshtein" THEN name_score
        ELSE IF algorithm = "jaro_winkler"
             THEN _jaro_winkler_score(parcel_name, record_name)
        ELSE IF algorithm = "cosine" THEN _cosine_score(parcel_name, record_name)
        ELSE RDiv(WeightName * name_score + WeightArea * area_score
                  + WeightId * id_score, 100)]

_calculate_match(parcel, record, algorithm, area_tolerance) ==
    Value({Value({MatchResult(parcel_name, record_name, name_score, id_score,
                              area_score, algorithm) :
                  name_score \in {_calculate_name_score(parcel_name, record_name)},
                  id_score \in {_calculate_id_score(parcel_id, record_id)},
                  area_score \in {_calculate_area_score(parcel.area, record.area,
                                                        area_tolerance)}}) :
           parcel_name \in {_normalize_name(parcel.owner_name)},
           record_name \in {_normalize_name(record.owner_name)},
           parcel_id \in {_normalize_id(parcel.plot_id)},
           record_id \in {_normalize_id(record.plot_id)}})

-----------------------------------------------------------------------------
(* MatchingEngine.run_matching *)

\* records_by_plot_id[key]: the records whose normalized plot_id is key, in order
RecordsByPlotId(records, key) ==
    SelectSeq(records, LAMBDA r : _normalize_id(r.plot_id) = key)

\* a variant of the start of the scan: a placeholder that counts as a kept match
BestPlaceholder ==
    [found |-> TRUE, raised |-> FALSE, best_score |-> 0,
     name_score |-> 0, area_score |-> 0, id_score |-> 0, record_id |-> 0]

\* best_match = None, best_score = 0
NoBest == [found |-> FALSE, raised |-> FALSE, best_score |-> 0,
           name_score |-> 0, area_score |-> 0, id_score |-> 0, record_id |-> 0]

\* a variant of the scoring loop: a record replaces the best also with an equal
\* total
RECURSIVE ScanRecordsLastWins(_, _, _, _, _)
ScanRecordsLastWins(parcel, recs, best, algorithm, area_tolerance) ==
    IF recs = << >> \/ best.raised THEN best
    ELSE IF CalculateMatchRaises(parcel, Head(recs), area_tolerance)
         THEN [best EXCEPT !.raised = TRUE]
    ELSE Value({
        IF match_result.total_score > 0 /\ match_result.total_score >= best.best_score
        THEN ScanRecordsLastWins(parcel, Tail(recs),
                         [found |-> TRUE, raised |-> FALSE,
                          best_score |-> match_result.total_score,
                          name_score |-> match_result.name_score,
                          area_score |-> match_result.area_score,
                          id_score |-> match_result.id_score,
                          record_id |-> Head(recs).id],
                         algorithm, area_tolerance)
        ELSE ScanRecordsLastWins(parcel, Tail(recs), best, algorithm, area_tolerance) :
        match_result \in {_calculate_match(parcel, Head(recs), algorithm,
                                           area_tolerance)}})

\* one scoring loop: a record replaces the best only with a strictly greater total
RECURSIVE ScanRecords(_, _, _, _, _)
ScanRecords(parcel, recs, best, algorithm, area_tolerance) ==
    IF recs = << >> \/ best.raised THEN best
    ELSE IF CalculateMatchRaises(parcel, Head(recs), area_tolerance)
         THEN [best EXCEPT !.raised = TRUE]
    ELSE Value({
        IF match_result.total_score > best.best_score
        THEN ScanRecords(parcel, Tail(recs),
                         [found |-> TRUE, raised |-> FALSE,
                          best_score |-> match_result.total_score,
                          name_score |-> match_result.name_score,
                          area_score |-> match_result.area_score,
                          id_score |-> match_result.id_score,
                          record_id |-> Head(recs).id],
                         algorithm, area_tolerance)
        ELSE ScanRecords(parcel, Tail(recs), best, algorithm, area_tolerance) :
        match_result \in {_calculate_match(parcel, Head(recs), algorithm,
                                           area_tolerance)}})

\* a variant of the two passes: every record is scanned only if the first pass
\* kept nothing
BestForParcelIndexFirst(parcel, records, algorithm, area_tolerance) ==
    Value({IF first.raised THEN first
           ELSE IF ~first.found
                THEN ScanRecords(parcel, records, first, algorithm, area_tolerance)
                ELSE first :
           first \in {ScanRecords(parcel,
                                  RecordsByPlotId(records, _normalize_id(parcel.plot_id)),
                                  NoBest, algorithm, area_tolerance)}})

\* the two passes for one parcel: the records of the parcel's index entry, then,
\* if nothing was kept or the best is below the threshold, every record
BestForParcel(parcel, records, algorithm, area_tolerance) ==
    Value({IF first.raised THEN first
           ELSE IF ~first.found \/ first.best_score < FullScanBelow * Scale
                THEN ScanRecords(parcel, records, first, algorithm, area_tolerance)
                ELSE first :
           first \in {ScanRecords(parcel,
                                  RecordsByPlotId(records, _normalize_id(parcel.plot_id)),
                                  NoBest, algorithm, area_tolerance)}})

\* the dictionary appended to matches; scores rounded to hundredths
MatchData(parcel, best) ==
    [parcel_id |-> parcel.id, record_id |-> best.record_id,
     total_score |-> Round2(best.best_score), name_score |-> Round2(best.name_score),
     area_score |-> Round2(best.area_score), id_score |-> Round2(best.id_score)]

\* a variant of the loop over the parcels: each candidate is put in front of the
\* candidates found before it
RECURSIVE MatchParcelsPrepend(_, _, _, _, _)
MatchParcelsPrepend(ps, records, algorithm, area_tolerance, acc) ==
    IF ps = << >> THEN [raised |-> FALSE, matches |-> acc]
    ELSE Value({
        IF best.raised THEN [raised |-> TRUE, matches |-> << >>]
        ELSE Value({MatchParcelsPrepend(Tail(ps), records, algorithm, area_tolerance,
                                        appended) :
                    appended \in {IF best.found
                                  THEN << MatchData(Head(ps), best) >> \o acc
                                  ELSE acc}}) :
        best \in {BestForParcel(Head(ps), records, algorithm, area_tolerance)}})

RECURSIVE MatchParcels(_, _, _, _, _)
MatchParcels(ps, records, algorithm, area_tolerance, acc) ==
    IF ps = << >> THEN [raised |-> FALSE, matches |-> acc]
    ELSE Value({
        IF best.raised THEN [raised |-> TRUE, matches |-> << >>]
        ELSE Value({MatchParcels(Tail(ps), records, algorithm, area_tolerance, appended) :
                    appended \in {IF best.found THEN Append(acc, MatchData(Head(ps), best))
                                  ELSE acc}}) :
        best \in {BestForParcel(Head(ps), records, algorithm, area_tolerance)}})

run_matching(ps, records, algorithm, area_tolerance) ==
    Value({MatchParcels(p, r, algorithm, area_tolerance, << >>) :
           p \in {ps}, r \in {records}})

-----------------------------------------------------------------------------
(* run_reconciliation: the status and confidence of a new Match *)

\* score >= 80: matched, high
MatchedFrom == 80

\* score >= 50: partial, medium
PartialFrom == 50

\* a variant of the status decision with strict comparisons
StatusOfScoreStrict(score) ==
    IF score > MatchedFrom * 100 THEN "matched"
    ELSE IF score > PartialFrom * 100 THEN "partial"
    ELSE "mismatch"

\* score is in hundredths of a point, as round(best_score, 2) leaves it
StatusOfScore(score) ==
    IF score >= MatchedFrom * 100 THEN "matched"
    ELSE IF score >= PartialFrom * 100 THEN "partial"
    ELSE "mismatch"

ConfidenceOfScore(score) ==
    IF score >= MatchedFrom * 100 THEN "high"
    ELSE IF score >= PartialFrom * 100 THEN "medium"
    ELSE "low"

-----------------------------------------------------------------------------
(* Inputs *)

\* longest parcel list and record list handed to one direct run_matching call
MaxParcels == 2

MaxRecords == 2

\* largest score, in hundredths, handed to the status decision
MaxScoreHundredths == 10000

\* area_tolerance values of a ReconcileRequest, in percent
Tolerances == {0, 2, 5}

Row(plot_id, owner_name, area) ==
    [plot_id |-> plot_id, owner_name |-> owner_name, area |-> area]

\* rows of table parcels: (plot_id, owner_name, area_sqm)
ParcelPool ==
    { Row(<< "7" >>, << "a", "b" >>, 100),
      Row(<< >>, << >>, 0),
      Row(<< "0", "7" >>, << "M", "r", " ", "a", "b" >>, -100),
      Row(<< "7", "1" >>, << "a", "c" >>, 104) }

\* rows of table text_records: (plot_id, owner_name, area_declared)
RecordPool ==
    { Row(<< "0", "7" >>, << "a", "c" >>, 100),
      Row(<< "7", "1" >>, << "a", "b" >>, 100),
      Row(<< "7" >>, << "a", "b" >>, 104),
      Row(<< >>, << >>, 0),
      Row(<< "7" >>, << "x", "y" >>, -50) }

\* a parcel and three records with longer fields: plot ids written with a
\* separator and zero padding, a two-token owner name, areas in the thousands
PaddedParcel ==
    Row(<< "P", "-", "0", "0", "7" >>,
        << "R", "a", "m", "e", "s", "h", " ", "K", "u", "m", "a", "r" >>, 2500)

ShortIdRecord ==
    Row(<< "p", "7" >>,
        << "r", "a", "m", "e", "s", "h", " ", "k", "u", "m", "a", "r" >>, 2550)

LargerAreaRecord ==
    Row(<< "p", "-", "0", "0", "7" >>,
        << "r", "a", "m", "e", "s", "h", " ", "k", "u", "m", "a", "r" >>, 3200)

\* the same plot, owner and area as PaddedParcel, written in another style
SameParcelRecord ==
    Row(<< "p", ".", "0", "0", "7" >>,
        << "S", "h", "r", "i", " ", "R", "a", "m", "e", "s", "h", " ",
           "K", "u", "m", "a", "r" >>, 2500)

\* the pairs handed to one direct _calculate_match call
ScoreParcels == ParcelPool \cup {PaddedParcel}

ScoreRecords == RecordPool \cup {ShortIdRecord, LargerAreaRecord, SameParcelRecord}

SeqsUpTo(S, n) == UNION {[1..k -> S] : k \in 0..n}

\* the second area of a direct _calculate_area_score call lies in -MaxArea..MaxArea
MaxArea == 130

\* the first area of a direct _calculate_area_score call
AreaBases == {100}

\* the positive tolerances
PositiveTolerances == Tolerances \ {0}

\* the longest raw string handed to a normalizer, in pieces
MaxPieces == 3

\* pieces of raw owner names and plot ids: honorifics with their space, an
\* honorific without it, punctuation, separators, letters, zero-padded digits
Pieces ==
    { << "m", "r", " " >>, << "s", "h", "r", "i", " " >>, << "s", "m", "t", " " >>,
      << "d", "r" >>,
      << "." >>, << " " >>, << "x" >>, << "0" >>, << "0", "7" >>,
      << "P" >>, << "-" >> }

RECURSIVE Concat(_)
Concat(pieces) == IF pieces = << >> THEN << >> ELSE Head(pieces) \o Concat(Tail(pieces))

\* the raw strings: every concatenation of up to MaxPieces pieces
RawStrings == {Concat(ps) : ps \in SeqsUpTo(Pieces, MaxPieces)}

\* the rows with their primary keys: a row's id is its position
WithIds(rows) ==
    [i \in 1..Len(rows) |->
        [id |-> i, plot_id |-> rows[i].plot_id,
         owner_name |-> rows[i].owner_name, area |-> rows[i].area]]

NoEngineCall == [state |-> "none"]

NoScoreCall == [state |-> "none"]

NoClassifyCall == [state |-> "none"]

NoResponse == [state |-> "none"]

NoNormalizeCall == [state |-> "none"]

NoAreaCall == [state |-> "none"]

DbEmpty ==
    /\ parcels = << >> /\ text_records = << >>
    /\ matches = << >> /\ audit_logs = << >>
    /\ sessions = << >> /\ verify_result = << >>
    /\ verify_calls = 0 /\ ok_calls = << >>
    /\ runs = 0 /\ last_response = NoResponse

DbUnchanged ==
    UNCHANGED << parcels, text_records, matches, audit_logs, sessions,
                 verify_result, verify_calls, ok_calls, runs, last_response >>

-----------------------------------------------------------------------------
(* EngineSpec: one call of MatchingEngine.run_matching on drawn inputs *)

EngineInit ==
    /\ DbEmpty
    /\ score_call = NoScoreCall
    /\ classify_call = NoClassifyCall
    /\ normalize_call = NoNormalizeCall
    /\ area_call = NoAreaCall
    /\ \E ps \in SeqsUpTo(ParcelPool, MaxParcels),
          rs \in SeqsUpTo(RecordPool, MaxRecords),
          alg \in Algorithms, tol \in Tolerances :
            engine_call = [state |-> "ready", parcels |-> WithIds(ps),
                           records |-> WithIds(rs), algorithm |-> alg,
                           area_tolerance |-> tol, matches |-> << >>]

RunMatching ==
    /\ engine_call.state = "ready"
    /\ \E out \in {run_matching(engine_call.parcels, engine_call.records,
                                 engine_call.algorithm, engine_call.area_tolerance)} :
          engine_call' = [engine_call EXCEPT
                             !.state = IF out.raised THEN "raised" ELSE "returned",
                             !.matches = out.matches]
    /\ DbUnchanged
    /\ UNCHANGED << score_call, classify_call, normalize_call, area_call >>

EngineNext == RunMatching

EngineSpec == EngineInit /\ [][EngineNext]_vars

-----------------------------------------------------------------------------
(* ScoreSpec: one call of MatchingEngine._calculate_match on a drawn pair *)

ScoreInit ==
    /\ DbEmpty
    /\ engine_call = NoEngineCall
    /\ classify_call = NoClassifyCall
    /\ normalize_call = NoNormalizeCall
    /\ area_call = NoAreaCall
    /\ \E p \in ScoreParcels, r \in ScoreRecords, alg \in Algorithms, tol \in Tolerances :
            score_call = [state |-> "ready", parcel |-> p, record |-> r,
                          algorithm |-> alg, area_tolerance |-> tol,
                          name_score |-> 0, area_score |-> 0,
                          id_score |-> 0, total_score |-> 0]

CalculateMatch ==
    /\ score_call.state = "ready"
    /\ IF CalculateMatchRaises(score_call.parcel, score_call.record,
                               score_call.area_tolerance)
       THEN score_call' = [score_call EXCEPT !.state = "raised"]
       ELSE \E m \in {_calculate_match(score_call.parcel, score_call.record,
                                        score_call.algorithm,
                                        score_call.area_tolerance)} :
                score_call' = [score_call EXCEPT
                                  !.state = "returned",
                                  !.name_score = m.name_score,
                                  !.area_score = m.area_score,
                                  !.id_score = m.id_score,
                                  !.total_score = m.total_score]
    /\ DbUnchanged
    /\ UNCHANGED << engine_call, classify_call, normalize_call, area_call >>

ScoreNext == CalculateMatch

ScoreSpec == ScoreInit /\ [][ScoreNext]_vars

-----------------------------------------------------------------------------
(* NormSpec: _normalize_name and _normalize_id applied to a raw string and then
   to their own result *)

NormInit ==
    /\ DbEmpty
    /\ engine_call = NoEngineCall
    /\ score_call = NoScoreCall
    /\ classify_call = NoClassifyCall
    /\ area_call = NoAreaCall
    /\ \E raw \in RawStrings :
            normalize_call = [state |-> "ready", raw |-> raw,
                              name_state |-> "ready", id_state |-> "ready",
                              name_once |-> << >>, name_twice |-> << >>,
                              id_once |-> << >>, id_twice |-> << >>]

NormalizeName ==
    /\ normalize_call.state = "ready"
    /\ normalize_call.name_state = "ready"
    /\ \E once \in {_normalize_name(normalize_call.raw)} :
            normalize_call' = [normalize_call EXCEPT
                                  !.name_state = "returned",
                                  !.name_once = once,
                                  !.name_twice = _normalize_name(once)]
    /\ DbUnchanged
    /\ UNCHANGED << engine_call, score_call, classify_call, area_call >>

NormalizeId ==
    /\ normalize_call.state = "ready"
    /\ normalize_call.id_state = "ready"
    /\ \E once \in {_normalize_id(normalize_call.raw)} :
            normalize_call' = [normalize_call EXCEPT
                                  !.id_state = "returned",
                                  !.id_once = once,
                                  !.id_twice = _normalize_id(once)]
    /\ DbUnchanged
    /\ UNCHANGED << engine_call, score_call, classify_call, area_call >>

NormNext == NormalizeName \/ NormalizeId

NormSpec == NormInit /\ [][NormNext]_vars

-----------------------------------------------------------------------------
(* AreaSpec: _calculate_area_score of one first area against two second areas,
   under one positive tolerance *)

AreaInit ==
    /\ DbEmpty
    /\ engine_call = NoEngineCall
    /\ score_call = NoScoreCall
    /\ classify_call = NoClassifyCall
    /\ normalize_call = NoNormalizeCall
    /\ \E area1 \in AreaBases, area2 \in (0 - MaxArea)..MaxArea, t \in PositiveTolerances :
            area_call = [state |-> "ready", area1 |-> area1, area_tolerance |-> t,
                         area2 |-> area2, diff_percent |-> 0, score |-> 0,
                         other2 |-> 0, other_diff |-> 0, other_score |-> 0]

CalculateAreaScore ==
    /\ area_call.state = "ready"
    /\ \E other2 \in (0 - MaxArea)..MaxArea :
            area_call' = [area_call EXCEPT
                !.state = "returned",
                !.diff_percent = DiffPercent(area_call.area1, area_call.area2),
                !.score = _calculate_area_score(area_call.area1, area_call.area2,
                                                area_call.area_tolerance),
                !.other2 = other2,
                !.other_diff = DiffPercent(area_call.area1, other2),
                !.other_score = _calculate_area_score(area_call.area1, other2,
                                                      area_call.area_tolerance)]
    /\ DbUnchanged
    /\ UNCHANGED << engine_call, score_call, classify_call, normalize_call >>

AreaNext == CalculateAreaScore

AreaSpec == AreaInit /\ [][AreaNext]_vars

-----------------------------------------------------------------------------
(* ClassifySpec: the status decision of run_reconciliation on a drawn score *)

ClassifyInit ==
    /\ DbEmpty
    /\ normalize_call = NoNormalizeCall
    /\ area_call = NoAreaCall
    /\ engine_call = NoEngineCall
    /\ score_call = NoScoreCall
    /\ \E score \in 0..MaxScoreHundredths :
            classify_call = [state |-> "ready", score |-> score,
                             status |-> "", confidence |-> ""]

Classify ==
    /\ classify_call.state = "ready"
    /\ classify_call' = [classify_call EXCEPT
                            !.state = "done",
                            !.status = StatusOfScore(classify_call.score),
                            !.confidence = ConfidenceOfScore(classify_call.score)]
    /\ DbUnchanged
    /\ UNCHANGED << engine_call, score_call, normalize_call, area_call >>

ClassifyNext == Classify

ClassifySpec == ClassifyInit /\ [][ClassifyNext]_vars

-----------------------------------------------------------------------------
(* The database and the two endpoints of api/reconcile.py *)

\* reconciliation requests served in one behaviour
MaxRuns == 1

\* verification requests started in one behaviour
MaxVerifyCalls == 2

\* concurrent verify_match requests, one database session each
SessionIds == {1, 2}

\* MatchStatus / MatchStatusEnum
StatusValues == {"matched", "partial", "mismatch", "pending", "verified", "rejected"}

\* the status field of a request body: members of the enum, and a string that is
\* none
TargetInputs == {"verified", "rejected", "matched", "pending", "bogus"}

None == "None"

\* the users whose id current_user["sub"] parses to
Users == {"u1", "u2"}

\* current_user of a request: absent, a sub that is no UUID, or a user
ActorInputs == {None, "not-a-uuid"} \cup Users

ReasonInputs == {None, "r1"}

\* the contents of tables parcels and text_records
DataSets ==
    LET P1 == Row(<< "7" >>, << "a", "b" >>, 100)
        P2 == Row(<< >>, << >>, 0)
        P3 == Row(<< "0", "7" >>, << "M", "r", " ", "a", "b" >>, -100)
        P4 == Row(<< "7", "1" >>, << "a", "c" >>, 104)
        R1 == Row(<< "0", "7" >>, << "a", "c" >>, 100)
        R2 == Row(<< "7", "1" >>, << "a", "b" >>, 100)
        R3 == Row(<< "7" >>, << "a", "b" >>, 104)
        R5 == Row(<< "7" >>, << "x", "y" >>, -50)
    IN  { [parcels |-> << P1, P2 >>, records |-> << R1, R2 >>],
          [parcels |-> << P1, P4 >>, records |-> << R3 >>],
          [parcels |-> << P1, P3 >>, records |-> << R5 >>],
          [parcels |-> << P1 >>, records |-> << >>],
          [parcels |-> << >>, records |-> << R1 >>] }

\* a variant of the Match run_reconciliation constructs: the status is left at the
\* column default
NewMatchPending(id, match_data) ==
    [id |-> id,
     parcel_id |-> match_data.parcel_id,
     text_record_id |-> match_data.record_id,
     match_score |-> match_data.total_score,
     name_score |-> match_data.name_score,
     area_score |-> match_data.area_score,
     id_score |-> match_data.id_score,
     status |-> "pending",
     confidence_level |-> ConfidenceOfScore(match_data.total_score),
     verified_by_id |-> None,
     verified_at |-> 0,
     rejection_reason |-> None]

\* a Match as run_reconciliation constructs it; verified_at 0 is null
NewMatch(id, match_data) ==
    [id |-> id,
     parcel_id |-> match_data.parcel_id,
     text_record_id |-> match_data.record_id,
     match_score |-> match_data.total_score,
     name_score |-> match_data.name_score,
     area_score |-> match_data.area_score,
     id_score |-> match_data.id_score,
     status |-> StatusOfScore(match_data.total_score),
     confidence_level |-> ConfidenceOfScore(match_data.total_score),
     verified_by_id |-> None,
     verified_at |-> 0,
     rejection_reason |-> None]

NoRow == NewMatch(0, [parcel_id |-> 0, record_id |-> 0, total_score |-> 0,
                      name_score |-> 0, area_score |-> 0, id_score |-> 0])

IdleSession ==
    [state |-> "idle", match_id |-> 0, status |-> "", actor |-> None,
     reason |-> None, loaded |-> NoRow, pending |-> NoRow]

NoVerifyResult ==
    [result |-> "", match_id |-> 0, status |-> "", actor |-> None,
     reason |-> None, loaded |-> NoRow]

Init ==
    /\ \E d \in DataSets :
          /\ parcels = WithIds(d.parcels)
          /\ text_records = WithIds(d.records)
    /\ matches = << >>
    /\ audit_logs = << >>
    /\ sessions = [s \in SessionIds |-> IdleSession]
    /\ verify_result = NoVerifyResult
    /\ verify_calls = 0
    /\ ok_calls = << >>
    /\ runs = 0
    /\ last_response = NoResponse
    /\ engine_call = NoEngineCall
    /\ score_call = NoScoreCall
    /\ classify_call = NoClassifyCall
    /\ normalize_call = NoNormalizeCall
    /\ area_call = NoAreaCall

CallsUnchanged ==
    UNCHANGED << engine_call, score_call, classify_call, normalize_call, area_call >>

CountStatus(rows, st) == Cardinality({i \in 1..Len(rows) : rows[i].status = st})

Response(state, created) ==
    [state |-> state,
     total_parcels |-> Len(parcels),
     total_records |-> Len(text_records),
     matches_found |-> CountStatus(created, "matched"),
     partial_matches |-> CountStatus(created, "partial"),
     mismatches |-> CountStatus(created, "mismatch"),
     matches |-> created]

\* MatchBase.match_score: Field(..., ge=0, le=100)
ResponseValid(created) ==
    \A i \in 1..Len(created) :
        created[i].match_score >= 0 /\ created[i].match_score <= 100 * 100

\* a variant of the store step: a created Match also takes the place of every
\* stored Match of its pair
ReplaceSamePair(table, created) ==
    [i \in 1..Len(table) |->
        IF \E j \in 1..Len(created) :
              /\ created[j].parcel_id = table[i].parcel_id
              /\ created[j].text_record_id = table[i].text_record_id
        THEN [(created[CHOOSE j \in 1..Len(created) :
                          /\ created[j].parcel_id = table[i].parcel_id
                          /\ created[j].text_record_id = table[i].text_record_id])
              EXCEPT !.id = i]
        ELSE table[i]] \o created

\* db.add(match) for every created Match, then db.commit(): rows are inserted
AddAll(table, created) == table \o created

\* POST /reconcile
run_reconciliation(algorithm, area_tolerance) ==
    /\ runs' = runs + 1
    /\ IF parcels = << >> \/ text_records = << >>
       THEN /\ last_response' = Response("ok", << >>)
            /\ UNCHANGED << matches, ok_calls >>
       ELSE \E out \in {run_matching(parcels, text_records, algorithm, area_tolerance)} :
            \E created \in {[i \in 1..Len(out.matches) |->
                                NewMatch(Len(matches) + i, out.matches[i])]} :
                IF out.raised
                THEN /\ last_response' = Response("error", << >>)
                     /\ UNCHANGED << matches, ok_calls >>
                ELSE /\ matches' = AddAll(matches, created)
                     /\ ok_calls' = ok_calls \o [i \in 1..Len(created) |-> 0]
                     /\ last_response' =
                            IF ResponseValid(created) THEN Response("ok", created)
                            ELSE Response("error", << >>)
    /\ UNCHANGED << parcels, text_records, audit_logs, sessions, verify_result,
                    verify_calls >>
    /\ CallsUnchanged

\* the ReconcileRequest bodies sent to the database above: (algorithm, area_tolerance)
ReconcileRequests ==
    { << "combined", 5 >>, << "combined", 0 >>, << "levenshtein", 5 >> }

Reconcile ==
    /\ runs < MaxRuns
    /\ \E req \in ReconcileRequests : run_reconciliation(req[1], req[2])

utcnow == verify_calls + 1

\* the Match object after the assignments of verify_match, before the commit
Assigned(loaded, target, actor, reason) ==
    [loaded EXCEPT !.status = target,
                   !.verified_by_id = actor,
                   !.verified_at = utcnow,
                   !.rejection_reason = IF reason # None THEN reason ELSE @]

\* a request that ends with an error before its commit: the session is rolled
\* back and nothing of the request is stored
Failed(result, match_id, target) ==
    [result |-> result, match_id |-> match_id, status |-> target, actor |-> None,
     reason |-> None, loaded |-> NoRow]

\* a variant of verify_match: a request that fails on the actor stores the status
\* it has assigned
verify_match_unrolled(s, match_id, target, actor, reason) ==
    /\ sessions[s].state = "idle"
    /\ \A r \in SessionIds : r < s => sessions[r].state # "idle"
    /\ verify_calls' = verify_calls + 1
    /\ IF target \notin StatusValues
       THEN /\ verify_result' = Failed("422", match_id, target)
            /\ UNCHANGED << sessions, matches >>
       ELSE IF match_id \notin DOMAIN matches
       THEN /\ verify_result' = Failed("404", match_id, target)
            /\ UNCHANGED << sessions, matches >>
       ELSE IF actor \notin Users
       THEN /\ verify_result' = Failed("500", match_id, target)
            /\ matches' = [matches EXCEPT ![match_id].status = target]
            /\ UNCHANGED sessions
       ELSE /\ sessions' = [sessions EXCEPT ![s] =
                  [state |-> "loaded", match_id |-> match_id, status |-> target,
                   actor |-> actor, reason |-> reason, loaded |-> matches[match_id],
                   pending |-> Assigned(matches[match_id], target, actor, reason)]]
            /\ UNCHANGED << verify_result, matches >>
    /\ UNCHANGED << parcels, text_records, audit_logs, ok_calls, runs,
                    last_response >>
    /\ CallsUnchanged

\* POST /reconcile/matches/{match_id}/verify, up to its commit; the request runs
\* in the free session of the lowest number
verify_match(s, match_id, target, actor, reason) ==
    /\ sessions[s].state = "idle"
    /\ \A r \in SessionIds : r < s => sessions[r].state # "idle"
    /\ verify_calls' = verify_calls + 1
    /\ IF target \notin StatusValues
       THEN /\ verify_result' = Failed("422", match_id, target)
            /\ UNCHANGED sessions
       ELSE IF match_id \notin DOMAIN matches
       THEN /\ verify_result' = Failed("404", match_id, target)
            /\ UNCHANGED sessions
       ELSE IF actor \notin Users
       THEN /\ verify_result' = Failed("500", match_id, target)
            /\ UNCHANGED sessions
       ELSE /\ sessions' = [sessions EXCEPT ![s] =
                  [state |-> "loaded", match_id |-> match_id, status |-> target,
                   actor |-> actor, reason |-> reason, loaded |-> matches[match_id],
                   pending |-> Assigned(matches[match_id], target, actor, reason)]]
            /\ UNCHANGED verify_result
    /\ UNCHANGED << parcels, text_records, matches, audit_logs, ok_calls, runs,
                    last_response >>
    /\ CallsUnchanged

VerifyBegin ==
    /\ verify_calls < MaxVerifyCalls
    /\ \E s \in SessionIds, match_id \in 1..(Len(matches) + 1),
          target \in TargetInputs, actor \in ActorInputs, reason \in ReasonInputs :
            verify_match(s, match_id, target, actor, reason)

\* the UPDATE of the flush: the attributes whose value differs from the loaded one
Flushed(row, loaded, pending) ==
    [row EXCEPT
        !.status = IF pending.status # loaded.status THEN pending.status ELSE @,
        !.verified_by_id =
            IF pending.verified_by_id # loaded.verified_by_id
            THEN pending.verified_by_id ELSE @,
        !.verified_at =
            IF pending.verified_at # loaded.verified_at THEN pending.verified_at ELSE @,
        !.rejection_reason =
            IF pending.rejection_reason # loaded.rejection_reason
            THEN pending.rejection_reason ELSE @]

\* the AuditLog verify_match adds
Audit(se) ==
    [user_id |-> se.actor, action |-> "VERIFY", entity_type |-> "match",
     entity_id |-> se.match_id, old_status |-> se.loaded.status,
     new_status |-> se.status, rejection_reason |-> se.reason]

\* await db.commit() of verify_match, and its return
commit_verify(s) ==
    LET se == sessions[s]
    IN  /\ se.state = "loaded"
        /\ matches' = [matches EXCEPT ![se.match_id] = Flushed(@, se.loaded, se.pending)]
        /\ audit_logs' = Append(audit_logs, Audit(se))
        /\ ok_calls' = [ok_calls EXCEPT ![se.match_id] = @ + 1]
        /\ sessions' = [sessions EXCEPT ![s] = IdleSession]
        /\ verify_result' =
               [result |-> "success", match_id |-> se.match_id, status |-> se.status,
                actor |-> se.actor, reason |-> se.reason, loaded |-> se.loaded]
        /\ UNCHANGED << parcels, text_records, verify_calls, runs, last_response >>
        /\ CallsUnchanged

VerifyCommit == \E s \in SessionIds : commit_verify(s)

Next == Reconcile \/ VerifyBegin \/ VerifyCommit

Spec == Init /\ [][Next]_vars

-----------------------------------------------------------------------------
(* RunSpec: one call of run_matching and the reconciliation runs over the  *)
(* same tables                                                             *)

\* the contents of table text_records in RunSpec
RunRecordLists ==
    { << >>,
      << Row(<< "0", "7" >>, << "a", "c" >>, 100) >>,
      << Row(<< "0", "7" >>, << "a", "c" >>, 100), Row(<< "7", "1" >>, << "a", "b" >>, 100) >>,
      << Row(<< "7" >>, << "x", "y" >>, -50) >>,
      << Row(<< "7", "1" >>, << "a", "b" >>, 100), Row(<< "7" >>, << "a", "b" >>, 104) >>,
      << Row(<< "7" >>, << "a", "b" >>, 104), Row(<< "7" >>, << "a", "b" >>, 104) >> }

RunInit ==
    /\ \E ps \in SeqsUpTo(ParcelPool, MaxParcels), rs \in RunRecordLists,
          req \in ReconcileRequests :
            /\ parcels = WithIds(ps)
            /\ text_records = WithIds(rs)
            /\ engine_call = [state |-> "ready", parcels |-> WithIds(ps),
                              records |-> WithIds(rs), algorithm |-> req[1],
                              area_tolerance |-> req[2], matches |-> << >>]
    /\ matches = << >>
    /\ audit_logs = << >>
    /\ sessions = [s \in SessionIds |-> IdleSession]
    /\ verify_result = NoVerifyResult
    /\ verify_calls = 0
    /\ ok_calls = << >>
    /\ runs = 0
    /\ last_response = NoResponse
    /\ score_call = NoScoreCall
    /\ classify_call = NoClassifyCall
    /\ normalize_call = NoNormalizeCall
    /\ area_call = NoAreaCall

RunNext == RunMatching \/ Reconcile

RunSpec == RunInit /\ [][RunNext]_vars

-----------------------------------------------------------------------------
(* RerunSpec: repeated reconciliation runs over the same tables, with a      *)
(* verification before, between or after them                                *)

\* reconciliation requests served in one behaviour of RerunSpec
MaxReruns == 2

\* verification requests started in one behaviour of RerunSpec
MaxRerunVerifyCalls == 1

Rerun ==
    /\ runs < MaxReruns
    /\ \E req \in ReconcileRequests : run_reconciliation(req[1], req[2])

\* the verification requests of RerunSpec: a verdict on a stored or a missing
\* match, by a user or without current_user
RerunVerifyBegin ==
    /\ verify_calls < MaxRerunVerifyCalls
    /\ \E s \in SessionIds, match_id \in 1..(Len(matches) + 1),
          target \in {"verified", "rejected"}, actor \in {None, "u1"},
          reason \in ReasonInputs :
            verify_match(s, match_id, target, actor, reason)

RerunNext == Rerun \/ RerunVerifyBegin \/ VerifyCommit

RerunSpec == Init /\ [][RerunNext]_vars

-----------------------------------------------------------------------------
(* ReasonSpec: one reconciliation run, then rejections of its matches by one *)
(* user, each with or without one of two reasons                            *)

\* verification requests started in one behaviour of ReasonSpec
MaxReasonCalls == 3

ReasonVerifyBegin ==
    /\ runs = MaxRuns
    /\ verify_calls < MaxReasonCalls
    /\ \E s \in SessionIds, match_id \in 1..Len(matches),
          reason \in ReasonInputs \cup {"r2"} :
            verify_match(s, match_id, "rejected", "u1", reason)

ReasonNext == Reconcile \/ ReasonVerifyBegin \/ VerifyCommit

ReasonSpec == Init /\ [][ReasonNext]_vars

-----------------------------------------------------------------------------
(* The claims *)

C6_OneMatchPerParcel ==
    engine_call.state = "returned"
    => Len(engine_call.matches) =
           IF engine_call.records = << >> THEN 0 ELSE Len(engine_call.parcels)

\* a call with records that returned fewer matches than parcels
C6_Witness ==
    /\ engine_call.state = "returned"
    /\ engine_call.records # << >>
    /\ Len(engine_call.matches) < Len(engine_call.parcels)

\* C7: the record run_matching selects for a parcel has the greatest total score
\* of the parcel against all records of the list, under each algorithm.
C7_SelectsBestRecord ==
    engine_call.state = "returned"
    => \A k \in DOMAIN engine_call.matches :
         \A r \in DOMAIN engine_call.records :
            LET parcel == engine_call.parcels[engine_call.matches[k].parcel_id]
                record == engine_call.records[r]
            IN  ~CalculateMatchRaises(parcel, record, engine_call.area_tolerance)
                => Round2(_calculate_match(parcel, record, engine_call.algorithm,
                                           engine_call.area_tolerance).total_score)
                   <= engine_call.matches[k].total_score

\* parcel (7, ab, 100) against records (07, ac, 100) and (71, ab, 100): the
\* first record is returned with 81.67 although the second scores 90.00
C7_Witness ==
    /\ engine_call.state = "returned"
    /\ engine_call.algorithm = "combined"
    /\ Len(engine_call.parcels) = 1
    /\ Len(engine_call.records) = 2
    /\ Len(engine_call.matches) = 1
    /\ engine_call.matches[1].record_id = 1
    /\ engine_call.matches[1].total_score = 8167
    /\ Round2(_calculate_match(engine_call.parcels[1], engine_call.records[2],
                               "combined", engine_call.area_tolerance).total_score) = 9000

C9_ScoresWithinRange ==
    score_call.state = "returned"
    => /\ score_call.name_score >= 0 /\ score_call.name_score <= 100 * Scale
       /\ score_call.id_score >= 0 /\ score_call.id_score <= 100 * Scale
       /\ score_call.area_score >= 0 /\ score_call.area_score <= 100 * Scale
       /\ score_call.algorithm = "combined"
          => (score_call.total_score >= 0 /\ score_call.total_score <= 100 * Scale)

\* a pair of negative areas whose area_score is 500
C9_Witness ==
    /\ score_call.state = "returned"
    /\ score_call.parcel.area < 0
    /\ score_call.record.area < 0
    /\ score_call.area_score = 500 * Scale

\* C10: a score of 80.00 or more is matched with confidence high, a score from
\* 50.00 up to 79.99 is partial with medium, a score below 50.00 is mismatch
\* with low.
C10_Classification ==
    classify_call.state = "done"
    => /\ classify_call.score >= 8000
          => (classify_call.status = "matched" /\ classify_call.confidence = "high")
       /\ (classify_call.score >= 5000 /\ classify_call.score <= 7999)
          => (classify_call.status = "partial" /\ classify_call.confidence = "medium")
       /\ classify_call.score <= 4999
          => (classify_call.status = "mismatch" /\ classify_call.confidence = "low")

\* the decision taken on a score at a boundary
C10_Witness ==
    /\ classify_call.state = "done"
    /\ classify_call.score \in {8000, 7999, 5000, 4999}

\* C11: parcel (P-007, Ramesh Kumar, 2500) against record (p7, ramesh kumar,
\* 2550) under combined with tolerance 5 scores id 100, name 100, area 92.16 and
\* total 97.65, which is matched with confidence high.
C11_PaddedIdScenario ==
    ( /\ score_call.state = "returned"
      /\ score_call.parcel = PaddedParcel
      /\ score_call.record = ShortIdRecord
      /\ score_call.algorithm = "combined"
      /\ score_call.area_tolerance = 5 )
    => /\ score_call.id_score = 100 * Scale
       /\ score_call.name_score = 100 * Scale
       /\ Round2(score_call.area_score) = 9216
       /\ Round2(score_call.total_score) = 9765
       /\ StatusOfScore(Round2(score_call.total_score)) = "matched"
       /\ ConfidenceOfScore(Round2(score_call.total_score)) = "high"

\* the scores the call returns for that pair: id 66.67 and total 87.65
C11_Witness ==
    /\ score_call.state = "returned"
    /\ score_call.parcel = PaddedParcel
    /\ score_call.record = ShortIdRecord
    /\ score_call.algorithm = "combined"
    /\ score_call.area_tolerance = 5
    /\ score_call.name_score = 100 * Scale
    /\ Round2(score_call.area_score) = 9216
    /\ Round2(score_call.id_score) = 6667
    /\ Round2(score_call.total_score) = 8765

\* C12 (as stated): the parcel of area 2500 against a record of area 3200 at
\* tolerance 5, combined, name and id scores 100, has area score 19.7 and total
\* 75.9, and is classified partial.
C12_LargeDifferenceAsStated ==
    ( /\ score_call.state = "returned" /\ score_call.parcel = PaddedParcel
      /\ score_call.record = LargerAreaRecord /\ score_call.algorithm = "combined"
      /\ score_call.area_tolerance = 5
      /\ score_call.name_score = Hundred /\ score_call.id_score = Hundred )
    => /\ Round2(score_call.area_score) = 1970
       /\ Round2(score_call.total_score) = 7590
       /\ StatusOfScore(Round2(score_call.total_score)) = "partial"

\* C12: the parcel of area 2500 against a record of area 3200 at tolerance 5 has a
\* percent difference of 700 / 3200 * 100 = 21.875, which lies between 2t and 5t,
\* so the area score is 50 - (21.875 - 10) / 15 * 30 = 26.25; under combined with
\* name and id scores of 100 the total is 77.875, classified partial.
C12_LargeDifference ==
    ( /\ score_call.state = "returned" /\ score_call.parcel = PaddedParcel
      /\ score_call.record = LargerAreaRecord /\ score_call.algorithm = "combined"
      /\ score_call.area_tolerance = 5
      /\ score_call.name_score = Hundred /\ score_call.id_score = Hundred )
    => /\ DiffPercent(score_call.parcel.area, score_call.record.area) = 218750
       /\ score_call.area_score = 262500
       /\ score_call.total_score = 778750
       /\ StatusOfScore(Round2(score_call.total_score)) = "partial"

\* the scenario has been scored, with name and id scores of 100 and a total
\* between 50 and 80
C12_Witness ==
    /\ score_call.state = "returned" /\ score_call.parcel = PaddedParcel
    /\ score_call.record = LargerAreaRecord /\ score_call.algorithm = "combined"
    /\ score_call.area_tolerance = 5
    /\ score_call.name_score = Hundred /\ score_call.id_score = Hundred
    /\ score_call.area_score > 0
    /\ score_call.total_score >= PartialFrom * Scale
    /\ score_call.total_score < MatchedFrom * Scale

\* C13: _normalize_name is idempotent: applied to its own result it returns that
\* result, for every raw string, among them names with two honorific tokens and
\* honorifics followed by punctuation.
C13_NormalizeNameIdempotent ==
    (normalize_call.state = "ready" /\ normalize_call.name_state = "returned")
    => normalize_call.name_twice = normalize_call.name_once

\* "mr shri x" has been normalized: once to "shri x", twice to "x"
C13_Witness ==
    /\ normalize_call.state = "ready" /\ normalize_call.name_state = "returned"
    /\ normalize_call.raw = << "m", "r", " ", "s", "h", "r", "i", " ", "x" >>
    /\ normalize_call.name_once = << "s", "h", "r", "i", " ", "x" >>
    /\ normalize_call.name_twice = << "x" >>

\* C14: _normalize_id is idempotent: applied to its own result it returns that
\* result, for every raw string, among them ids with several all-digit tokens.
C14_NormalizeIdIdempotent ==
    (normalize_call.state = "ready" /\ normalize_call.id_state = "returned")
    => normalize_call.id_twice = normalize_call.id_once

\* "0 07" has been normalized: once to "07", twice to "7"
C14_Witness ==
    /\ normalize_call.state = "ready" /\ normalize_call.id_state = "returned"
    /\ normalize_call.raw = << "0", " ", "0", "7" >>
    /\ normalize_call.id_once = << "0", "7" >>
    /\ normalize_call.id_twice = << "7" >>

\* a plot id without its leading zeros of each run of digits
RECURSIVE UnpadDigits(_, _)
UnpadDigits(s, inNumber) ==
    IF s = << >> THEN << >>
    ELSE IF Head(s) = "0" /\ ~inNumber /\ Len(s) > 1 /\ s[2] \in DigitChars
         THEN UnpadDigits(Tail(s), FALSE)
         ELSE << Head(s) >> \o UnpadDigits(Tail(s), Head(s) \in DigitChars)

\* two plot ids that differ only in letter case, in the separators - / \ . and
\* in the zero padding of their numeric parts
SameUpToStyle(id1, id2) ==
    UnpadDigits(SelectSeq(StrLower(id1), LAMBDA c : c \notin {"-", "/", "\\", "."}), FALSE)
    = UnpadDigits(SelectSeq(StrLower(id2), LAMBDA c : c \notin {"-", "/", "\\", "."}), FALSE)

\* C15: two non-empty plot ids that differ only in letter case, separators and
\* zero padding normalize to the same string and have id score 100; "P-007" and
\* "p7" both normalize to "p7".
C15_StyleInsensitiveIds ==
    ( /\ score_call.state = "returned"
      /\ score_call.parcel.plot_id # << >> /\ score_call.record.plot_id # << >>
      /\ SameUpToStyle(score_call.parcel.plot_id, score_call.record.plot_id) )
    => /\ _normalize_id(score_call.parcel.plot_id)
          = _normalize_id(score_call.record.plot_id)
       /\ score_call.id_score = Hundred
       /\ score_call.parcel = PaddedParcel
          => _normalize_id(score_call.parcel.plot_id) = << "p", "7" >>

\* "P-007" has been scored against "p7": the ids normalize to "p007" and "p7" and
\* the id score is below 100
C15_Witness ==
    /\ score_call.state = "returned"
    /\ score_call.parcel.plot_id = << "P", "-", "0", "0", "7" >>
    /\ score_call.record.plot_id = << "p", "7" >>
    /\ SameUpToStyle(score_call.parcel.plot_id, score_call.record.plot_id)
    /\ _normalize_id(score_call.parcel.plot_id) = << "p", "0", "0", "7" >>
    /\ _normalize_id(score_call.record.plot_id) = << "p", "7" >>
    /\ score_call.id_score < Hundred

\* C16 (as stated): for every scored pair, identical normalized names give name
\* score 100, identical normalized ids give id score 100, identical areas give
\* area score 100.
C16_ExactMatchAsStated ==
    score_call.state = "returned"
    => /\ _normalize_name(score_call.parcel.owner_name)
            = _normalize_name(score_call.record.owner_name)
          => score_call.name_score = Hundred
       /\ _normalize_id(score_call.parcel.plot_id)
            = _normalize_id(score_call.record.plot_id)
          => score_call.id_score = Hundred
       /\ score_call.parcel.area = score_call.record.area
          => score_call.area_score = Hundred

\* C16: for every scored pair, identical non-empty normalized names give name
\* score 100, identical non-empty normalized ids give id score 100 and identical
\* non-zero areas give area score 100; two empty normalized names, two empty
\* normalized ids and two zero areas give score 0.
C16_ExactMatch ==
    score_call.state = "returned"
    => /\ _normalize_name(score_call.parcel.owner_name)
            = _normalize_name(score_call.record.owner_name)
          => score_call.name_score
               = IF _normalize_name(score_call.parcel.owner_name) = << >>
                 THEN 0 ELSE Hundred
       /\ _normalize_id(score_call.parcel.plot_id)
            = _normalize_id(score_call.record.plot_id)
          => score_call.id_score
               = IF _normalize_id(score_call.parcel.plot_id) = << >>
                 THEN 0 ELSE Hundred
       /\ score_call.parcel.area = score_call.record.area
          => score_call.area_score
               = IF score_call.parcel.area = 0 THEN 0 ELSE Hundred

\* a pair with identical non-empty names, ids and areas has been scored 100 on
\* all three
C16_Witness ==
    /\ score_call.state = "returned"
    /\ _normalize_name(score_call.parcel.owner_name) # << >>
    /\ _normalize_name(score_call.parcel.owner_name)
         = _normalize_name(score_call.record.owner_name)
    /\ _normalize_id(score_call.parcel.plot_id) # << >>
    /\ _normalize_id(score_call.parcel.plot_id)
         = _normalize_id(score_call.record.plot_id)
    /\ score_call.parcel.plot_id # score_call.record.plot_id
    /\ score_call.parcel.area # 0
    /\ score_call.parcel.area = score_call.record.area
    /\ score_call.name_score = Hundred
    /\ score_call.id_score = Hundred
    /\ score_call.area_score = Hundred

\* C17: for a fixed positive tolerance t and non-zero areas, a pair of areas with
\* the larger percent difference d never has the larger area score; at d = t,
\* d = 2t and d = 5t the score is 80, 50 and 20; the score is never below 0.
C17_AreaScoreMonotone ==
    ( /\ area_call.state = "returned"
      /\ area_call.area2 # 0 /\ area_call.other2 # 0 )
    => /\ area_call.diff_percent >= 0
       /\ area_call.diff_percent <= area_call.other_diff
          => area_call.score >= area_call.other_score
       /\ area_call.diff_percent = area_call.area_tolerance * Scale
          => area_call.score = 80 * Scale
       /\ area_call.diff_percent = area_call.area_tolerance * 2 * Scale
          => area_call.score = 50 * Scale
       /\ area_call.diff_percent = area_call.area_tolerance * 5 * Scale
          => area_call.score = 20 * Scale
       /\ area_call.score >= 0

\* a difference just above 2t has been scored against one far in the tail: the
\* first score lies between 20 and 50, the second is clamped at 0
C17_Witness ==
    /\ area_call.state = "returned"
    /\ area_call.area2 # 0 /\ area_call.other2 # 0
    /\ area_call.diff_percent > area_call.area_tolerance * 2 * Scale
    /\ area_call.diff_percent < area_call.area_tolerance * 5 * Scale
    /\ area_call.score < 50 * Scale /\ area_call.score > 20 * Scale
    /\ area_call.other_diff > (area_call.area_tolerance * 5 + 200) * Scale
    /\ area_call.other_score = 0

\* C18: run_matching never raises, whatever rows it is given, and a match whose
\* parcel or record has a negative area has area score 0, as for an absent area.
C18_BadRowsAreLocal ==
    /\ engine_call.state # "raised"
    /\ engine_call.state = "returned"
       => \A i \in 1..Len(engine_call.matches) :
             LET m == engine_call.matches[i]
             IN  ( \/ engine_call.parcels[m.parcel_id].area < 0
                   \/ engine_call.records[m.record_id].area < 0 )
                 => m.area_score = 0

\* run_matching has raised on two parcels and one record: the first parcel has a
\* name, a plot id and a positive area and scores against the record, the second
\* parcel and the record have negative areas
C18_Witness ==
    /\ engine_call.state = "raised"
    /\ engine_call.area_tolerance = 0
    /\ Len(engine_call.parcels) = 2 /\ Len(engine_call.records) = 1
    /\ engine_call.parcels[1].area > 0
    /\ engine_call.parcels[1].plot_id # << >>
    /\ engine_call.parcels[1].owner_name # << >>
    /\ ~CalculateMatchRaises(engine_call.parcels[1], engine_call.records[1], 0)
    /\ _calculate_match(engine_call.parcels[1], engine_call.records[1],
                        engine_call.algorithm, 0).total_score > 0
    /\ engine_call.parcels[2].area < 0
    /\ engine_call.records[1].area < 0
    /\ engine_call.matches = << >>

C21_CandidatePerParcelAlone ==
    engine_call.state # "ready"
    => LET ps == engine_call.parcels
           reversed == [i \in 1..Len(ps) |-> ps[Len(ps) + 1 - i]]
           again == run_matching(reversed, engine_call.records,
                                 engine_call.algorithm, engine_call.area_tolerance)
       IN  /\ again.raised = (engine_call.state = "raised")
           /\ Range(again.matches) = Range(engine_call.matches)
           /\ \A i \in 1..Len(ps) :
                 LET alone == run_matching(<< ps[i] >>, engine_call.records,
                                           engine_call.algorithm,
                                           engine_call.area_tolerance)
                 IN  ~alone.raised
                     => /\ engine_call.state = "returned"
                        /\ Range(alone.matches)
                             = {m \in Range(engine_call.matches) : m.parcel_id = ps[i].id}

\* run_matching has raised on two parcels, the first of which alone has a
\* candidate among the same records
C21_Witness ==
    /\ engine_call.state = "raised"
    /\ Len(engine_call.parcels) = 2
    /\ LET alone == run_matching(<< engine_call.parcels[1] >>, engine_call.records,
                                 engine_call.algorithm, engine_call.area_tolerance)
       IN  ~alone.raised /\ Len(alone.matches) = 1

\* C22: for each parcel of a call that returns: if some record shares the
\* parcel's normalized id and the best total among these records is 80 or more,
\* the candidate is one of these records with that total, whatever the other
\* records score; otherwise the candidate has the best total over all records,
\* and there is no candidate if that is 0.
C22_FullScanBelowThreshold ==
    engine_call.state = "returned"
    => \A i \in 1..Len(engine_call.parcels) :
         LET parcel == engine_call.parcels[i]
             recs == engine_call.records
             total(r) == _calculate_match(parcel, recs[r], engine_call.algorithm,
                                          engine_call.area_tolerance).total_score
             indexed == {r \in 1..Len(recs) :
                            _normalize_id(recs[r].plot_id) = _normalize_id(parcel.plot_id)}
             best(S) == IF S = {} THEN 0
                        ELSE CHOOSE x \in {total(r) : r \in S} :
                                \A r \in S : total(r) <= x
             found == {m \in Range(engine_call.matches) : m.parcel_id = parcel.id}
         IN  IF indexed # {} /\ best(indexed) >= FullScanBelow * Scale
             THEN \E m \in found :
                     /\ found = {m}
                     /\ m.record_id \in indexed
                     /\ m.total_score = Round2(best(indexed))
             ELSE IF best(1..Len(recs)) > 0
             THEN \E m \in found :
                     /\ found = {m}
                     /\ m.total_score = Round2(best(1..Len(recs)))
                     /\ m.total_score = Round2(total(m.record_id))
             ELSE found = {}

\* a call has returned for two parcels: for one the records sharing its id stay
\* below 80 and a record with another id is selected with a higher total; for
\* the other a record sharing its id has 80 or more and is selected although a
\* record with another id has a higher total
C22_Witness ==
    /\ engine_call.state = "returned"
    /\ Len(engine_call.matches) = 2
    /\ \E k, l \in 1..2 :
         LET idOf(row) == _normalize_id(row.plot_id)
             recs == engine_call.records
             total(p, r) == _calculate_match(engine_call.parcels[p], recs[r],
                                engine_call.algorithm,
                                engine_call.area_tolerance).total_score
             mk == engine_call.matches[k]
             ml == engine_call.matches[l]
         IN  /\ idOf(recs[mk.record_id]) # idOf(engine_call.parcels[mk.parcel_id])
             /\ \E r \in 1..Len(recs) :
                   /\ idOf(recs[r]) = idOf(engine_call.parcels[mk.parcel_id])
                   /\ total(mk.parcel_id, r) > 0
                   /\ total(mk.parcel_id, r) < total(mk.parcel_id, mk.record_id)
             /\ idOf(recs[ml.record_id]) = idOf(engine_call.parcels[ml.parcel_id])
             /\ ml.total_score >= FullScanBelow * 100
             /\ \E r \in 1..Len(recs) :
                   Round2(total(ml.parcel_id, r)) > ml.total_score

\* C23: for each candidate of a call that returns, the selected record is the
\* first record of the scan order that attains the highest total of the scan: the
\* records sharing the parcel's normalized id in input order, followed, if the
\* full scan runs, by all records in input order.
C23_FirstOfEqualsWins ==
    engine_call.state = "returned"
    => \A k \in 1..Len(engine_call.matches) :
         LET m == engine_call.matches[k]
             parcel == engine_call.parcels[m.parcel_id]
             recs == engine_call.records
             total(r) == _calculate_match(parcel, recs[r], engine_call.algorithm,
                                          engine_call.area_tolerance).total_score
             all == [r \in 1..Len(recs) |-> r]
             indexed == SelectSeq(all, LAMBDA r :
                            _normalize_id(recs[r].plot_id) = _normalize_id(parcel.plot_id))
             full == \A j \in 1..Len(indexed) : total(indexed[j]) < FullScanBelow * Scale
             scan == IF full THEN indexed \o all ELSE indexed
             first == CHOOSE j \in 1..Len(scan) :
                         /\ \A i \in 1..Len(scan) : total(scan[i]) <= total(scan[j])
                         /\ \A i \in 1..(j - 1) : total(scan[i]) < total(scan[j])
         IN  m.record_id = recs[scan[first]].id

\* a call has returned with a candidate that is the earlier of two records with
\* the same total, and with a candidate that is the later record in input order
\* of two with the same total, the later one sharing the parcel's id
C23_Witness ==
    /\ engine_call.state = "returned"
    /\ Len(engine_call.records) = 2
    /\ engine_call.records[1] # engine_call.records[2]
    /\ \E k, l \in 1..Len(engine_call.matches) :
         LET recs == engine_call.records
             total(p, r) == _calculate_match(engine_call.parcels[p], recs[r],
                                engine_call.algorithm,
                                engine_call.area_tolerance).total_score
             mk == engine_call.matches[k]
             ml == engine_call.matches[l]
         IN  /\ total(mk.parcel_id, 1) = total(mk.parcel_id, 2)
             /\ mk.record_id = 1
             /\ total(ml.parcel_id, 1) = total(ml.parcel_id, 2)
             /\ ml.record_id = 2
             /\ _normalize_id(recs[2].plot_id)
                  = _normalize_id(engine_call.parcels[ml.parcel_id].plot_id)

\* C24: _normalize_name removes one leading honorific token and no more: its
\* result is the lowercased, stripped name without its first token if that is a
\* prefix of the list, with the special characters removed and the whitespace
\* collapsed; a second honorific token stays.
C24_OneHonorificRemoved ==
    (normalize_call.state = "ready" /\ normalize_call.name_state = "returned")
    => LET lowered == Strip(StrLower(normalize_call.raw))
           leading == {i \in 1..Len(prefixes) :
                          StartsWith(lowered, prefixes[i] \o << " " >>)}
           cut == IF leading = {} THEN lowered
                  ELSE DropFirst(lowered,
                                 Len(prefixes[CHOOSE i \in leading : TRUE]) + 1)
           kept == SelectSeq(cut, LAMBDA c :
                       IsWordChar(c) \/ IsSpace(c) \/ c \in DevanagariChars)
       IN  normalize_call.name_once = Strip(CollapseSpaces(kept, FALSE))

\* "shri smt x" has been normalized to "x"
C24_Witness ==
    /\ normalize_call.state = "ready" /\ normalize_call.name_state = "returned"
    /\ normalize_call.raw = << "s", "h", "r", "i", " ", "s", "m", "t", " ", "x" >>
    /\ normalize_call.name_once = << "x" >>

\* C25: name score is 0 whenever either normalized name is empty, id score is 0
\* whenever either normalized id is empty, and area score is 0 whenever either
\* area is 0, also when the two values are equal.
C25_AbsentFieldsScoreZero ==
    /\ score_call.state = "raised"
       => (score_call.parcel.area # 0 /\ score_call.record.area # 0)
    /\ score_call.state = "returned"
       => /\ ( \/ _normalize_name(score_call.parcel.owner_name) = << >>
               \/ _normalize_name(score_call.record.owner_name) = << >> )
             => score_call.name_score = 0
          /\ ( \/ _normalize_id(score_call.parcel.plot_id) = << >>
               \/ _normalize_id(score_call.record.plot_id) = << >> )
             => score_call.id_score = 0
          /\ (score_call.parcel.area = 0 \/ score_call.record.area = 0)
             => score_call.area_score = 0

\* a parcel and a record with empty name, empty id and area 0 have been scored
\* under combined: all three scores and the total are 0
C25_Witness ==
    /\ score_call.state = "returned"
    /\ score_call.algorithm = "combined"
    /\ score_call.parcel.owner_name = << >> /\ score_call.record.owner_name = << >>
    /\ score_call.parcel.plot_id = << >> /\ score_call.record.plot_id = << >>
    /\ score_call.parcel.area = 0 /\ score_call.record.area = 0
    /\ score_call.name_score = 0 /\ score_call.id_score = 0
    /\ score_call.area_score = 0 /\ score_call.total_score = 0

\* C26: under levenshtein every call returns a total equal to the name score, and
\* every other parcel and record with the same owner names, whatever their plot
\* ids and areas, return that same total.
C26_LevenshteinIgnoresIdAndArea ==
    (score_call.state # "ready" /\ score_call.algorithm = "levenshtein")
    => /\ score_call.state = "returned"
       /\ score_call.total_score = score_call.name_score
       /\ \A p \in ScoreParcels, r \in ScoreRecords :
             ( /\ p.owner_name = score_call.parcel.owner_name
               /\ r.owner_name = score_call.record.owner_name )
             => /\ ~CalculateMatchRaises(p, r, score_call.area_tolerance)
                /\ _calculate_match(p, r, "levenshtein",
                                    score_call.area_tolerance).total_score
                     = score_call.total_score

\* a call under levenshtein has raised on a parcel and a record that both have an
\* owner name and a plot id
C26_Witness ==
    /\ score_call.state = "raised"
    /\ score_call.algorithm = "levenshtein"
    /\ _normalize_name(score_call.parcel.owner_name) # << >>
    /\ _normalize_name(score_call.record.owner_name) # << >>
    /\ score_call.parcel.plot_id # << >> /\ score_call.record.plot_id # << >>
    /\ score_call.parcel.area < 0 /\ score_call.record.area < 0
    /\ score_call.area_tolerance = 0

\* C27: a verify call that fails, on a missing match or on a missing or
\* unparsable actor, leaves table matches and table audit_logs as they were.
C27_FailedVerifyStoresNothing ==
    [][ ( /\ verify_calls' = verify_calls + 1
          /\ verify_result'.result \in {"404", "500"}
          /\ verify_result'.match_id \notin DOMAIN matches
             \/ verify_result'.result = "500" )
        => (matches' = matches /\ audit_logs' = audit_logs) ]_vars

\* a verdict on a stored match has failed on the actor: the match has neither
\* the requested status nor a verifier, and there is no audit record
C27_Witness ==
    /\ verify_result.result = "500"
    /\ verify_result.match_id \in DOMAIN matches
    /\ verify_result.status \in {"verified", "rejected"}
    /\ matches[verify_result.match_id].status \in {"matched", "partial", "mismatch"}
    /\ matches[verify_result.match_id].verified_by_id = None
    /\ matches[verify_result.match_id].verified_at = 0
    /\ audit_logs = << >>

C30_OneCandidatePerParcelInOrder ==
    engine_call.state = "returned"
    => LET out == engine_call.matches
           position(k) == CHOOSE p \in 1..Len(engine_call.parcels) :
                             engine_call.parcels[p].id = out[k].parcel_id
       IN  /\ Len(out) <= Len(engine_call.parcels)
           /\ \A k \in 1..Len(out) :
                 /\ \E p \in 1..Len(engine_call.parcels) :
                       engine_call.parcels[p].id = out[k].parcel_id
                 /\ \E r \in 1..Len(engine_call.records) :
                       engine_call.records[r].id = out[k].record_id
           /\ \A k \in 1..Len(out), l \in 1..Len(out) :
                 k < l => position(k) < position(l)

\* two parcels with a candidate each, the first parcel's candidate being the
\* second record and the second parcel's the first record
C30_Witness ==
    /\ engine_call.state = "returned"
    /\ Len(engine_call.parcels) = 2
    /\ Len(engine_call.matches) = 2
    /\ engine_call.matches[1].parcel_id = engine_call.parcels[1].id
    /\ engine_call.matches[1].record_id = 2
    /\ engine_call.matches[2].record_id = 1

=============================================================================
